---- MODULE Spec2Model ----
(***************************************************************************)
(* A model of pagerank.py: crawl (the link graph builder),                 *)
(* transition_model, sample_pagerank and iterate_pagerank.                 *)
(*                                                                         *)
(* Pages are the integers 1..N.  A Python dict is a function; its          *)
(* iteration order (insertion order, which crawl takes from os.listdir) is *)
(* the ascending order of the keys: the file names are opaque, and every   *)
(* directory and every corpus over the names is enumerated, so each        *)
(* (graph, order) pair is one of the enumerated inputs up to renaming.     *)
(*                                                                         *)
(* Numbers.  transition_model and the normalisation of sample_pagerank     *)
(* divide small integers: their floats are modelled as exact rationals     *)
(* [num, den] in lowest terms.  The ranks of iterate_pagerank are iterated *)
(* without bound on the denominators, so they are modelled in fixed point: *)
(* an integer r stands for r / Scale and every division truncates.         *)
(***************************************************************************)
EXTENDS Integers, FiniteSets, Sequences, TLC

\* ------------------------------------------------------------------ bounds
\* names a directory may hold (crawl)
MaxNames == 3
\* pages of a corpus handed to transition_model and iterate_pagerank
MaxPages == 3
\* pages of a corpus handed to sample_pagerank
MaxWalkPages == 2
\* largest sample count n handed to sample_pagerank
MaxSamples == 3
\* fixed-point resolution of a rank of iterate_pagerank: r stands for r / Scale
Scale == 10000000

\* ------------------------------------------------------------- arithmetic
RECURSIVE GCD(_, _)
GCD(a, b) == IF b = 0 THEN a ELSE GCD(b, a % b)

\* the rational a / b (a >= 0, b > 0) in lowest terms
Rat(a, b) == LET g == GCD(a, b) IN [num |-> a \div g, den |-> b \div g]

Zero == Rat(0, 1)
One == Rat(1, 1)
RAdd(x, y) == Rat(x.num * y.den + y.num * x.den, x.den * y.den)
RSub(x, y) == Rat(x.num * y.den - y.num * x.den, x.den * y.den)
RDivInt(x, k) == Rat(x.num, x.den * k)
RLeq(x, y) == x.num * y.den <= y.num * x.den

RECURSIVE RSum(_, _)
RSum(f, S) == IF S = {} THEN Zero
              ELSE LET p == CHOOSE q \in S : TRUE IN RAdd(f[p], RSum(f, S \ {p}))

RECURSIVE ISum(_, _)
ISum(f, S) == IF S = {} THEN 0
              ELSE LET p == CHOOSE q \in S : TRUE IN f[p] + ISum(f, S \ {p})

Abs(x) == IF x < 0 THEN -x ELSE x

\* -------------------------------------------------------------- constants
\* DAMPING = 0.85
DAMPING == Rat(17, 20)
\* the damping factors a caller passes: 0, 1/2, 0.85 and 1
DampingValues == {Zero, Rat(1, 2), DAMPING, One}

\* the dicts {page: set of other pages of the dict} over 1..k, k <= maxN
Corpora(minN, maxN) ==
    UNION {[1..k -> SUBSET (1..k)] : k \in minN..maxN}

NoSelfLinks(c) == \A p \in DOMAIN c : p \notin c[p]

len(c) == Cardinality(DOMAIN c)

VARIABLES
    pc,             \* the position of the running function
    directory,      \* crawl: the directory, name -> [kind, links]
    pages,          \* crawl: the dict being built
    corpus,         \* the corpus: page -> set of pages
    page,           \* transition_model: the argument page
    damping_factor, \* the argument damping_factor
    n,              \* sample_pagerank: the argument n
    prob_dist,      \* transition_model: the returned dict
    rank,           \* sample_pagerank, iterate_pagerank: the dict rank
    next_page,      \* sample_pagerank: the current page of the walk
    i,              \* sample_pagerank: iterations of the range(n - 1) loop done
    link_to,        \* iterate_pagerank: the reverse index
    html,           \* iterate_pagerank: position of the for loop, 1..N+1
    max_diff,       \* iterate_pagerank: the local max_diff, Unbound before its first assignment
    prev,           \* iterate_pagerank: rank as it stood when the round began
    outcome         \* how the call ended: "none", "returned" or the exception raised

vars == <<pc, directory, pages, corpus, page, damping_factor, n, prob_dist,
          rank, next_page, i, link_to, html, max_diff, prev, outcome>>

Unbound == 0 - 1

\* ------------------------------------------------------- transition_model
\* transition_model without its branch for a page that has no links
transition_model_uniform_bug(c, p, d) ==
    LET links == c[p]
        num_links == Cardinality(links)
        prob_damp == RDivInt(RSub(One, d), len(c))
    IN [h \in DOMAIN c |->
           IF h \in links THEN RAdd(RDivInt(d, num_links), prob_damp) ELSE prob_damp]

\* lines 51-82
transition_model(c, p, d) ==
    LET links == c[p]
        num_links == Cardinality(links)
    IN IF num_links # 0
       THEN LET prob_damp == RDivInt(RSub(One, d), len(c))
            IN [h \in DOMAIN c |->
                   IF h \in links
                   THEN LET prob_link == RDivInt(d, num_links)
                        IN RAdd(prob_link, prob_damp)
                   ELSE prob_damp]
       \* lines 78-80
       ELSE [h \in DOMAIN c |-> RDivInt(One, len(c))]

InitTM ==
    /\ corpus \in {c \in Corpora(1, MaxPages) : NoSelfLinks(c)}
    /\ page \in 1..MaxPages
    /\ page \in DOMAIN corpus
    /\ damping_factor \in DampingValues
    /\ pc = "transition_model"
    /\ prob_dist = << >>
    /\ directory = << >> /\ pages = << >> /\ n = 0 /\ rank = << >>
    /\ next_page = 0 /\ i = 0 /\ link_to = << >> /\ html = 0
    /\ max_diff = Unbound /\ prev = << >> /\ outcome = "none"

TMCall ==
    /\ pc = "transition_model"
    /\ prob_dist' = transition_model(corpus, page, damping_factor)
    /\ pc' = "tm_done"
    /\ outcome' = "returned"
    /\ UNCHANGED <<directory, pages, corpus, page, damping_factor, n, rank,
                   next_page, i, link_to, html, max_diff, prev>>

NextTM == TMCall

SpecTM == InitTM /\ [][NextTM]_vars

\* C2: transition_model(corpus, P, d) is a mapping over exactly the corpus
\* pages that equals the reference distribution: with L >= 1 outlinks each
\* outlink target gets (1-d)/N + d/L = ((1-d)L + dN)/(NL) and every other page
\* (P included) gets (1-d)/N; with no outlinks every page gets 1/N.  The
\* equalities are stated cross-multiplied over the integers, d = dn/dd.
C2_TransitionModelIsReference ==
    pc = "tm_done" =>
        LET N == len(corpus)
            L == Cardinality(corpus[page])
            dn == damping_factor.num
            dd == damping_factor.den
        IN /\ DOMAIN prob_dist = DOMAIN corpus
           /\ \A q \in DOMAIN corpus :
                  LET v == prob_dist[q]
                  IN /\ v.den > 0
                     /\ L >= 1 /\ q \in corpus[page] =>
                            v.num * (dd * N * L) = v.den * ((dd - dn) * L + dn * N)
                     /\ L >= 1 /\ q \notin corpus[page] =>
                            v.num * (dd * N) = v.den * (dd - dn)
                     /\ L = 0 => v.num * N = v.den
           /\ RSum(prob_dist, DOMAIN prob_dist) = One

\* a page with one outlink among three pages, and elsewhere a dangling page,
\* queried with d = 0.85
C2_Witness ==
    /\ pc = "tm_done"
    /\ len(corpus) = 3
    /\ Cardinality(corpus[page]) = 1
    /\ \E q \in DOMAIN corpus : corpus[q] = {}
    /\ damping_factor = DAMPING
    /\ \E q \in DOMAIN corpus : prob_dist[q] = Rat(1, 20)
    /\ \E q \in DOMAIN corpus : prob_dist[q] = Rat(9, 10)

\* ------------------------------------------------------------------ crawl
Names == 1..MaxNames

\* what a name is in the directory: no file, a file that does not end with
\* ".html", or an .html file with the href targets found in it
Entries ==
    {[kind |-> "absent", links |-> {}], [kind |-> "other", links |-> {}]}
    \cup {[kind |-> "html", links |-> t] : t \in SUBSET Names}

\* the links of a page with the page itself left in
ExtractLinks_keep_self(links, filename) == links

\* line 39: the links of a page, without the page itself
ExtractLinks(links, filename) == links \ {filename}

\* lines 43-46: the links that are pages of the corpus
FilterLinks(links, keys) == {link \in links : link \in keys}

InitCrawl ==
    /\ directory \in [Names -> Entries]
    /\ pc = "crawl_extract"
    /\ pages = << >>
    /\ corpus = << >>
    /\ page = 0 /\ damping_factor = Zero /\ n = 0 /\ prob_dist = << >>
    /\ rank = << >> /\ next_page = 0 /\ i = 0 /\ link_to = << >> /\ html = 0
    /\ max_diff = Unbound /\ prev = << >> /\ outcome = "none"

\* lines 30-39: the loop over os.listdir(directory); a name that does not end
\* with ".html" is skipped
CrawlExtract ==
    /\ pc = "crawl_extract"
    /\ pages' = [filename \in {f \in Names : directory[f].kind = "html"} |->
                     ExtractLinks(directory[filename].links, filename)]
    /\ pc' = "crawl_filter"
    /\ UNCHANGED <<directory, corpus, page, damping_factor, n, prob_dist, rank,
                   next_page, i, link_to, html, max_diff, prev, outcome>>

\* lines 42-46: the loop over pages, which replaces values and keeps the keys
CrawlFilter ==
    /\ pc = "crawl_filter"
    /\ pages' = [filename \in DOMAIN pages |->
                     FilterLinks(pages[filename], DOMAIN pages)]
    /\ pc' = "crawl_return"
    /\ UNCHANGED <<directory, corpus, page, damping_factor, n, prob_dist, rank,
                   next_page, i, link_to, html, max_diff, prev, outcome>>

\* line 48, and line 13 of main: corpus = crawl(...)
CrawlReturn ==
    /\ pc = "crawl_return"
    /\ corpus' = pages
    /\ pc' = "crawled"
    /\ outcome' = "returned"
    /\ UNCHANGED <<directory, pages, page, damping_factor, n, prob_dist, rank,
                   next_page, i, link_to, html, max_diff, prev>>

NextCrawl == CrawlExtract \/ CrawlFilter \/ CrawlReturn

SpecCrawl == InitCrawl /\ [][NextCrawl]_vars

\* C6: the corpus built by crawl has exactly the .html pages of the collection
\* as keys (pages with no qualifying link kept, with an empty set), and the
\* outlinks of every page P are (raw targets of P) \cap (all pages) \ {P}; so
\* no outlink set holds its own page or a page that is not a key.
C6_CrawlBuildsCorpus ==
    pc = "crawled" =>
        LET collection == {f \in Names : directory[f].kind = "html"}
        IN /\ DOMAIN corpus = collection
           /\ \A P \in collection :
                  /\ corpus[P] = (directory[P].links \cap collection) \ {P}
                  /\ P \notin corpus[P]
                  /\ corpus[P] \subseteq DOMAIN corpus

\* a page that links to itself, to another page, to a file that is not a
\* page and to a name outside the directory; and a page left with no outlink
C6_Witness ==
    /\ pc = "crawled"
    /\ \E P, Q \in DOMAIN corpus :
           /\ P # Q
           /\ {P, Q} \subseteq directory[P].links
           /\ \E f \in directory[P].links : directory[f].kind # "html"
           /\ corpus[P] = {Q}
           /\ directory[Q].links # {}
           /\ corpus[Q] = {}

\* ---------------------------------------------------------- sample_pagerank
\* line 102: the damping factor handed to transition_model is the module's
\* DAMPING, whatever damping_factor the caller passed
walk_damping(d) == DAMPING

\* a counter set to 1 instead of incremented
visit_assigns_one(r, p) == [r EXCEPT ![p] = 1]

\* lines 99, 104: rank[next_page] += 1
visit(r, p) == [r EXCEPT ![p] = @ + 1]

\* line 103: random.choices(keys, weights) draws a key of non-zero weight
choices(dist) == {p \in DOMAIN dist : dist[p].num > 0}

\* --------------------------------------------------------- iterate_pagerank
\* the float 0.001 of line 157
Threshold == Scale \div 1000

\* the keys of a dict over 1..N in iteration order
Keys(c) == [k \in 1..len(c) |-> k]

RECURSIVE SeqSum(_, _, _)
\* sum of r[i] / len(c[i]) over the pages i of the list s, lines 139-141
SeqSum(s, r, c) ==
    IF s = << >> THEN 0
    ELSE r[Head(s)] \div Cardinality(c[Head(s)]) + SeqSum(Tail(s), r, c)

\* lines 123-130: link_to[p] lists, in iteration order, the pages linking to p
reverse_index(c) ==
    [p \in DOMAIN c |-> SelectSeq(Keys(c), LAMBDA h : p \in c[h])]

\* lines 135-149: the new rank of page p computed from the ranks r
new_rank(c, lt, r, d, p) ==
    LET N == len(c)
        num_links_p == Cardinality(c[p])
        sum == IF num_links_p # 0
               THEN SeqSum(lt[p], r, c)
               ELSE SeqSum(SelectSeq(Keys(c), LAMBDA k : Cardinality(c[k]) # 0), r, c)
    IN ((d.den - d.num) * Scale) \div (d.den * N) + (d.num * sum) \div d.den

\* lines 136, 150-152: max_diff is set to 0 for every page, then raised to diff
max_diff_after(old, diff) == LET reset == 0 IN IF diff > reset THEN diff ELSE reset

\* a stop condition no difference satisfies
converged_never(md) == md < 0

\* line 157: the stop condition
converged(md) == md < Threshold

\* ------------------------------------------- the two estimators, as called
\* main calls sample_pagerank(corpus, DAMPING, SAMPLES) and
\* iterate_pagerank(corpus, DAMPING); a test may pass any damping factor and
\* any n >= 1 to sample_pagerank.
InitSample ==
    /\ pc = "sample_pagerank"
    /\ corpus \in {c \in Corpora(0, MaxWalkPages) : NoSelfLinks(c)}
    /\ damping_factor \in DampingValues
    /\ n \in 1..MaxSamples
    /\ directory = << >> /\ pages = << >> /\ page = 0 /\ prob_dist = << >>
    /\ rank = << >> /\ next_page = 0 /\ i = 0 /\ link_to = << >> /\ html = 0
    /\ max_diff = Unbound /\ prev = << >> /\ outcome = "none"

InitIter ==
    /\ pc = "iterate_pagerank"
    /\ corpus \in {c \in Corpora(0, MaxPages) : NoSelfLinks(c)}
    /\ damping_factor = DAMPING
    /\ n = 0
    /\ directory = << >> /\ pages = << >> /\ page = 0 /\ prob_dist = << >>
    /\ rank = << >> /\ next_page = 0 /\ i = 0 /\ link_to = << >> /\ html = 0
    /\ max_diff = Unbound /\ prev = << >> /\ outcome = "none"

InitRank == InitSample \/ InitIter

\* lines 94-99: the counters, and the first page; random.choice raises
\* IndexError on an empty list
SampleStart ==
    /\ pc = "sample_pagerank"
    /\ \/ /\ DOMAIN corpus = {}
          /\ rank' = << >>
          /\ pc' = "raised"
          /\ outcome' = "IndexError"
          /\ UNCHANGED next_page
       \/ /\ DOMAIN corpus # {}
          /\ \E first \in DOMAIN corpus :
                /\ next_page' = first
                /\ rank' = visit([h \in DOMAIN corpus |-> 0], first)
          /\ pc' = "sample_walk"
          /\ UNCHANGED outcome
    /\ UNCHANGED <<directory, pages, corpus, page, damping_factor, n, prob_dist,
                   i, link_to, html, max_diff, prev>>

\* lines 101-104: one iteration of the loop over range(n - 1)
SampleStep ==
    /\ pc = "sample_walk"
    /\ i < n - 1
    /\ prob_dist' = transition_model(corpus, next_page, walk_damping(damping_factor))
    /\ next_page' \in choices(prob_dist')
    /\ rank' = visit(rank, next_page')
    /\ i' = i + 1
    /\ UNCHANGED <<pc, directory, pages, corpus, page, damping_factor, n,
                   link_to, html, max_diff, prev, outcome>>

\* lines 106-109: the loop is over; every counter is divided by n
SampleNormalize ==
    /\ pc = "sample_walk"
    /\ i = n - 1
    /\ rank' = [p \in DOMAIN rank |-> Rat(rank[p], n)]
    /\ pc' = "sample_returned"
    /\ outcome' = "returned"
    /\ UNCHANGED <<directory, pages, corpus, page, damping_factor, n, prob_dist,
                   next_page, i, link_to, html, max_diff, prev>>

\* lines 121-132: the initial ranks 1 / N and the reverse index; with no page
\* neither loop runs its body
IterStart ==
    /\ pc = "iterate_pagerank"
    /\ rank' = [h \in DOMAIN corpus |-> Scale \div len(corpus)]
    /\ link_to' = reverse_index(corpus)
    /\ prev' = rank'
    /\ html' = 1
    /\ pc' = "iter_loop"
    /\ UNCHANGED <<directory, pages, corpus, page, damping_factor, n, prob_dist,
                   next_page, i, max_diff, outcome>>

\* lines 134-155: the body of the for loop for one page; rank is updated in
\* place.  (The counter iterations of lines 132 and 155 is never read.)
IterUpdate ==
    /\ pc = "iter_loop"
    /\ html <= len(corpus)
    /\ LET new == new_rank(corpus, link_to, rank, damping_factor, html)
           diff == Abs(rank[html] - new)
       IN /\ max_diff' = max_diff_after(max_diff, diff)
          /\ rank' = [rank EXCEPT ![html] = new]
    /\ prev' = IF html = 1 THEN rank ELSE prev
    /\ html' = html + 1
    /\ UNCHANGED <<pc, directory, pages, corpus, page, damping_factor, n, prob_dist,
                   next_page, i, link_to, outcome>>

\* lines 157-158 and 133: after the for loop, return or go round again; with
\* no page max_diff was never assigned and reading it raises UnboundLocalError
IterCheck ==
    /\ pc = "iter_loop"
    /\ html > len(corpus)
    /\ \/ /\ max_diff = Unbound
          /\ pc' = "raised"
          /\ outcome' = "UnboundLocalError"
          /\ UNCHANGED html
       \/ /\ max_diff # Unbound
          /\ converged(max_diff)
          /\ pc' = "iter_returned"
          /\ outcome' = "returned"
          /\ UNCHANGED html
       \/ /\ max_diff # Unbound
          /\ ~converged(max_diff)
          /\ html' = 1
          /\ UNCHANGED <<pc, outcome>>
    /\ UNCHANGED <<directory, pages, corpus, page, damping_factor, n, prob_dist,
                   rank, next_page, i, link_to, max_diff, prev>>

NextSample == SampleStart \/ SampleStep \/ SampleNormalize

NextIter == IterStart \/ IterUpdate \/ IterCheck

NextRank == NextSample \/ NextIter

\* a call of sample_pagerank
SpecSample == InitSample /\ [][NextSample]_vars

\* a call of iterate_pagerank: one thread that runs until it returns or raises
SpecIter == InitIter /\ [][NextIter]_vars /\ WF_vars(NextIter)

\* a call of either estimator
SpecRank == InitRank /\ [][NextRank]_vars

\* ------------------------------------------------- claims on the estimators
\* C1: for a non-empty corpus and damping factor 0.85 the mapping returned by
\* iterate_pagerank has exactly the corpus pages as keys and its values sum to
\* 1 within 1e-6; a single-page corpus with no links gets rank 1.
C1_IterateSumsToOne ==
    (pc = "iter_returned" /\ DOMAIN corpus # {}) =>
        /\ DOMAIN rank = DOMAIN corpus
        /\ Abs(ISum(rank, DOMAIN rank) - Scale) <= Scale \div 1000000
        /\ len(corpus) = 1 => rank[1] = Scale

C4_IterateReturns ==
    (pc = "iterate_pagerank" /\ DOMAIN corpus # {} /\ damping_factor = DAMPING)
        ~> (pc = "iter_returned")

\* a corpus of three pages, one of them dangling, returned after the ranks
\* moved away from 1/N
C4_Witness ==
    /\ pc = "iter_returned"
    /\ len(corpus) = 3
    /\ \E p \in DOMAIN corpus : corpus[p] = {}
    /\ \E p \in DOMAIN corpus : corpus[p] # {}
    /\ \E p \in DOMAIN corpus : Abs(rank[p] - Scale \div 3) > Threshold

\* C5: on a corpus with zero pages each estimator rejects the input with a
\* dedicated error before any ranking step: it never enters its loop, never
\* returns, and raises nothing but that error.
C5_EmptyCorpusRejected ==
    DOMAIN corpus = {} =>
        /\ pc \notin {"sample_walk", "sample_returned", "iter_loop", "iter_returned"}
        /\ pc = "raised" => outcome = "EmptyCorpusError"

\* C7: every update of a page P in iterate_pagerank assigns (1-d)/N + d*S,
\* S the sum of rank[I]/L_I over the pages I linking to P plus rank[I]/N over
\* the dangling pages I, whether or not P itself has outlinks.
C7_UpdateUsesStandardSum ==
    [][(pc = "iter_loop" /\ html' = html + 1) =>
          LET N == len(corpus)
              d == damping_factor
              linking == {I \in DOMAIN corpus : html \in corpus[I]}
              dangling == {I \in DOMAIN corpus : corpus[I] = {}}
              S == ISum([I \in DOMAIN corpus |-> rank[I] \div Cardinality(corpus[I])],
                        linking)
                   + ISum([I \in DOMAIN corpus |-> rank[I] \div N], dangling)
          IN rank'[html] = ((d.den - d.num) * Scale) \div (d.den * N)
                           + (d.num * S) \div d.den]_vars

\* C8: whenever iterate_pagerank returns, every page's rank changed by less
\* than 0.001 in the final round.
C8_ReturnsOnlyWhenAllConverged ==
    pc = "iter_returned" =>
        \A p \in DOMAIN rank : Abs(prev[p] - rank[p]) < Threshold

\* C9: the rank mapping after each round is the all-at-once update of the
\* mapping the round began with.
C9_RoundReadsSnapshot ==
    (pc = "iter_loop" /\ html > len(corpus) /\ DOMAIN corpus # {}) =>
        rank = [p \in DOMAIN corpus |->
                   new_rank(corpus, link_to, prev, damping_factor, p)]

\* C10: every step of the walk lands on a page of non-zero weight in
\* transition_model(corpus, current page, damping_factor), damping_factor the
\* argument of the call; with damping_factor = 1 a step from a page that has
\* outlinks lands on one of them.
C10_StepUsesDampingArgument ==
    [][(pc = "sample_walk" /\ i' = i + 1) =>
          /\ next_page' \in choices(transition_model(corpus, next_page, damping_factor))
          /\ (damping_factor = One /\ corpus[next_page] # {}) =>
                 next_page' \in corpus[next_page]]_vars

====
